---- MODULE Spec2Model ----
(***************************************************************************)
(* A model of new_meeting.py: the Fathom webhook that fetches a recording  *)
(* from the source listing, writes one meeting record and one record per   *)
(* action item to Airtable, and reconciles people by name                  *)
(* (find_or_create_participant).                                           *)
(*                                                                         *)
(* Strings are sequences of one-character strings, so that strip, split    *)
(* and replace are computed as Python computes them.  Python's None is the *)
(* value None below; a record identifier is a positive integer and NoId    *)
(* stands for an absent identifier.                                        *)
(***************************************************************************)
EXTENDS Integers, Sequences, FiniteSets, TLC

VARIABLES
    \* the destination's People table and the reconciler's callers
    people,     \* the People table of the destination: records in creation order
    layout,     \* the People table's fields as the schema endpoint reports them
    pc,         \* per caller: its position inside find_or_create_participant
    fcName,     \* per caller: participant_name of the call in progress
    fcField,    \* per caller: name_field chosen for the create
    fcFail,     \* per caller: the first remote call of the call in progress that failed
    hist,       \* completed find_or_create_participant calls, in completion order
    \* one webhook request
    config,             \* the configuration keys that are set (lines 14-18)
    request,            \* the inbound request: method and JSON body
    listing,            \* the source listing: pages of raw meetings, in cursor order
    tables,             \* the fields of the destination's meetings and action-items tables
    rpc,                \* the request's position in fathom_webhook
    recording_id,       \* fathom_webhook's recording_id
    pageNo,             \* pages of the listing requested so far
    call_data,          \* what fetch_fathom_call_data returned
    linked,             \* upload_meeting_to_airtable's linked_record_fields
    item_linked,        \* create_action_items' linked_record_fields
    names,              \* upload_meeting_to_airtable's participant_names
    ids,                \* upload_meeting_to_airtable's participant_record_ids
    idx,                \* loop index: next participant, next action item
    meeting_record_id,  \* id of the meeting record the destination created
    created_count,      \* create_action_items' created_count
    meeting_sent,       \* meeting create calls issued, with how each ended
    items_sent,         \* action-item create calls issued, with how each ended
    calls,              \* remote calls issued: source GETs, destination GETs, destination POSTs
    response            \* fathom_webhook's response

fcVars == <<pc, fcName, fcField, fcFail>>

webVars == <<config, request, listing, tables, rpc, recording_id, pageNo, call_data, linked, item_linked,
             names, ids, idx, meeting_record_id, created_count, meeting_sent, items_sent, calls,
             response>>

vars == <<people, layout, hist, fcVars, webVars>>

----------------------------------------------------------------------------
(* Values *)

None == <<"<None>">>

NoId == 0

Truthy(s) == s # None /\ s # <<>>

Ws == {" "}

IsWs(c) == c \in Ws

----------------------------------------------------------------------------
(* Name Normalizer *)

RECURSIVE LStrip(_)
LStrip(s) == IF s # <<>> /\ IsWs(Head(s)) THEN LStrip(Tail(s)) ELSE s

RECURSIVE RStrip(_)
RStrip(s) == IF s # <<>> /\ IsWs(s[Len(s)]) THEN RStrip(SubSeq(s, 1, Len(s) - 1)) ELSE s

strip(s) == RStrip(LStrip(s))

\* str.find: the first index of character c in s, 0 when there is none
Find(s, c) ==
    IF \E i \in 1..Len(s) : s[i] = c
    THEN CHOOSE i \in 1..Len(s) : s[i] = c /\ \A j \in 1..(i - 1) : s[j] # c
    ELSE 0

reformat_name(name) ==
    IF ~Truthy(name) THEN name
    ELSE LET n == strip(name)
             i == Find(n, ",")
         IN  IF i > 0
             THEN strip(SubSeq(n, i + 1, Len(n))) \o <<" ">> \o strip(SubSeq(n, 1, i - 1))
             ELSE n

----------------------------------------------------------------------------
(* Assignee Extractor: extract_assignee, the five patterns in order *)

Upper == {"A", "B", "C", "D", "E", "F", "G", "H", "I", "J", "K", "L", "M",
          "N", "O", "P", "Q", "R", "S", "T", "U", "V", "W", "X", "Y", "Z"}

Lower == {"a", "b", "c", "d", "e", "f", "g", "h", "i", "j", "k", "l", "m",
          "n", "o", "p", "q", "r", "s", "t", "u", "v", "w", "x", "y", "z"}

Digit == {"0", "1", "2", "3", "4", "5", "6", "7", "8", "9"}

\* \w
Word == Upper \cup Lower \cup Digit \cup {"_"}

IsWord(c) == c \in Word

At(s, i) == IF i >= 1 /\ i <= Len(s) THEN s[i] ELSE ""

\* The last index of the longest run of characters of class Cls that starts
\* at i; i - 1 when the run is empty.
RunEnd(s, i, Cls) ==
    CHOOSE j \in (i - 1)..Len(s) :
        /\ \A k \in i..j : s[k] \in Cls
        /\ j = Len(s) \/ s[j + 1] \notin Cls

\* s has the literal lit at index i
HasAt(s, i, lit) ==
    /\ i >= 1
    /\ i + Len(lit) - 1 <= Len(s)
    /\ \A k \in 1..Len(lit) : s[i + k - 1] = lit[k]

\* [A-Z][a-z]+ at index i: the index of its last character, 0 when it does not match
CapWordEnd(s, i) ==
    IF At(s, i) \in Upper /\ At(s, i + 1) \in Lower THEN RunEnd(s, i + 1, Lower) ELSE 0

\* [A-Z][a-z]+(?:\s+[A-Z][a-z]+)? at index i, without and with the second
\* word: the index of the last character, 0 when there is no match
OneNameEnd(s, i) == CapWordEnd(s, i)

TwoNameEnd(s, i) ==
    LET e == CapWordEnd(s, i)
        w == RunEnd(s, e + 1, Ws)
    IN  IF e > 0 /\ w > e THEN CapWordEnd(s, w + 1) ELSE 0

\* the greedy match: two words when the second one is there
NameEnd(s, i) == IF TwoNameEnd(s, i) > 0 THEN TwoNameEnd(s, i) ELSE OneNameEnd(s, i)

\* Pattern 1: @(\w+(?:\s+\w+)?)
MentionStarts(s) == {i \in 1..Len(s) : s[i] = "@" /\ IsWord(At(s, i + 1))}

Min(S) == CHOOSE x \in S : \A y \in S : x <= y

mention_match(s) ==
    IF MentionStarts(s) = {} THEN None
    ELSE LET i == Min(MentionStarts(s))
             e == RunEnd(s, i + 1, Word)
             w == RunEnd(s, e + 1, Ws)
         IN  IF w > e /\ IsWord(At(s, w + 1))
             THEN SubSeq(s, i + 1, RunEnd(s, w + 1, Word))
             ELSE SubSeq(s, i + 1, e)

\* Pattern 2: \[([^\]]+)\]
BracketStarts(s) ==
    {i \in 1..Len(s) : /\ s[i] = "["
                       /\ At(s, i + 1) \notin {"]", ""}
                       /\ \E j \in (i + 2)..Len(s) : s[j] = "]"}

bracket_match(s) ==
    IF BracketStarts(s) = {} THEN None
    ELSE LET i == Min(BracketStarts(s))
             j == Min({k \in (i + 2)..Len(s) : s[k] = "]"})
         IN  SubSeq(s, i + 1, j - 1)

\* Pattern 3: [Aa]ssigned\s+(?:to\s+)?:?\s*([A-Z][a-z]+(?:\s+[A-Z][a-z]+)?)
\* The indices at which the name can start after "ssigned" ending at a - 1:
\* what lies between matches \s+(?:to\s+)?:?\s*
AssignedNameStarts(s, a) ==
    {t \in (a + 1)..Len(s) :
        /\ CapWordEnd(s, t) > 0
        /\ \E p \in (a + 1)..t : \E q \in p..t : \E r \in q..t :
              /\ \A k \in a..(p - 1) : IsWs(s[k])
              /\ \/ q = p
                 \/ /\ HasAt(s, p, <<"t", "o">>)
                    /\ q > p + 2
                    /\ \A k \in (p + 2)..(q - 1) : IsWs(s[k])
              /\ \/ r = q
                 \/ r = q + 1 /\ s[q] = ":"
              /\ \A k \in r..(t - 1) : IsWs(s[k])}

AssignedStarts(s) ==
    {i \in 1..Len(s) :
        /\ s[i] \in {"A", "a"}
        /\ HasAt(s, i + 1, <<"s", "s", "i", "g", "n", "e", "d">>)
        /\ AssignedNameStarts(s, i + 8) # {}}

assigned_match(s) ==
    IF AssignedStarts(s) = {} THEN None
    ELSE LET i == Min(AssignedStarts(s))
             t == Min(AssignedNameStarts(s, i + 8))
         IN  SubSeq(s, t, NameEnd(s, t))

\* Pattern 4: ^([A-Z][a-z]+(?:\s+[A-Z][a-z]+)?)\s*:
ColonAfter(s, e) == e > 0 /\ At(s, RunEnd(s, e + 1, Ws) + 1) = ":"

colon_match(s) ==
    IF ColonAfter(s, TwoNameEnd(s, 1)) THEN SubSeq(s, 1, TwoNameEnd(s, 1))
    ELSE IF ColonAfter(s, OneNameEnd(s, 1)) THEN SubSeq(s, 1, OneNameEnd(s, 1))
    ELSE None

\* Pattern 5: ^([A-Z][a-z]+(?:\s+[A-Z][a-z]+)?)\s+(?:to|will|should|needs to)\s+
ControlVerbs == {<<"t", "o">>, <<"w", "i", "l", "l">>, <<"s", "h", "o", "u", "l", "d">>,
                 <<"n", "e", "e", "d", "s", " ", "t", "o">>}

VerbAfter(s, e) ==
    /\ e > 0
    /\ LET w == RunEnd(s, e + 1, Ws) IN
       /\ w > e
       /\ \E v \in ControlVerbs : HasAt(s, w + 1, v) /\ IsWs(At(s, w + 1 + Len(v)))

action_match(s) ==
    IF VerbAfter(s, TwoNameEnd(s, 1)) THEN SubSeq(s, 1, TwoNameEnd(s, 1))
    ELSE IF VerbAfter(s, OneNameEnd(s, 1)) THEN SubSeq(s, 1, OneNameEnd(s, 1))
    ELSE None

extract_assignee(s) ==
    IF mention_match(s) # None THEN strip(mention_match(s))
    ELSE IF bracket_match(s) # None THEN strip(bracket_match(s))
    ELSE IF assigned_match(s) # None THEN strip(assigned_match(s))
    ELSE IF colon_match(s) # None THEN strip(colon_match(s))
    ELSE IF action_match(s) # None THEN strip(action_match(s))
    ELSE None

----------------------------------------------------------------------------
(* Participant Reconciler: find_or_create_participant *)

\* participant_name.replace("'", "''")
RECURSIVE escape_quotes(_)
escape_quotes(s) ==
    IF s = <<>> THEN <<>>
    ELSE (IF Head(s) = "'" THEN <<"'", "'">> ELSE <<Head(s)>>) \o escape_quotes(Tail(s))

\* The destination evaluating {Name} = '<literal>': a doubled quote in the
\* literal stands for one quote.
RECURSIVE unescape_quotes(_)
unescape_quotes(s) ==
    IF s = <<>> THEN <<>>
    ELSE IF Len(s) >= 2 /\ s[1] = "'" /\ s[2] = "'"
         THEN <<"'">> \o unescape_quotes(SubSeq(s, 3, Len(s)))
         ELSE <<Head(s)>> \o unescape_quotes(Tail(s))

\* The records the exact-match query returns: those whose Name field holds the name.
MatchingRecords(pe, name) ==
    SelectSeq(pe, LAMBDA r : r.field = "Name" /\ r.value = unescape_quotes(escape_quotes(name)))

\* How a remote call can end: a 200 answer, a non-success status, or an
\* exception (transport failure, timeout, or a body that is not JSON).
\* "nokey" is a 200 answer whose JSON has no 'records' key.
LookupOutcomes == {"ok", "nokey", "status", "raise"}

SchemaOutcomes == {"ok", "notlisted", "status", "raise"}

CreateOutcomes == {"ok", "status", "raise"}

\* Lines 356-364: the lookup.  "return" with the identifier found, "fail"
\* when the exception handler returns None, "create" when control falls
\* through to the create path.
LookupStep(pe, name, o) ==
    IF o = "raise" THEN [next |-> "fail", id |-> NoId]
    ELSE IF o = "ok" /\ Len(MatchingRecords(pe, name)) > 0
         THEN [next |-> "return", id |-> MatchingRecords(pe, name)[1].id]
         ELSE [next |-> "create", id |-> NoId]

TextTypes == {"singleLineText", "email"}

\* Lines 374-385: the first singleLineText or email field of the People
\* table, 'Name' when the schema is unavailable or has no such field.
ChooseNameField(lay, o) ==
    IF o = "ok" /\ \E i \in 1..Len(lay) : lay[i].type \in TextTypes
    THEN lay[CHOOSE i \in 1..Len(lay) :
                 /\ lay[i].type \in TextTypes
                 /\ \A j \in 1..(i - 1) : lay[j].type \notin TextTypes].name
    ELSE "Name"

NextId(pe) == Len(pe) + 1

\* A create that first looks for a record already holding the name and
\* returns it: the compare-and-swap the code does not have.
CreateStepIfAbsent(pe, field, name, o) ==
    IF o # "ok" THEN [id |-> NoId, people |-> pe]
    ELSE IF \E i \in 1..Len(pe) : pe[i].field = field /\ pe[i].value = name
         THEN [id |-> (CHOOSE i \in 1..Len(pe) : pe[i].field = field /\ pe[i].value = name),
               people |-> pe]
         ELSE [id |-> Len(pe) + 1,
               people |-> Append(pe, [id |-> Len(pe) + 1, field |-> field, value |-> name])]

\* Lines 387-396: the create call and what the destination stores.
CreateStep(pe, field, name, o) ==
    IF o = "ok"
    THEN [id |-> NextId(pe),
          people |-> Append(pe, [id |-> NextId(pe), field |-> field, value |-> name])]
    ELSE [id |-> NoId, people |-> pe]

\* find_or_create_participant as one sequential call: lookup, schema fetch
\* and create, each ending as lo, so and co say.
find_or_create_participant(pe, lay, name, lo, so, co) ==
    IF ~Truthy(name) THEN [ret |-> NoId, people |-> pe, fail |-> "none", via |-> "entry"]
    ELSE LET l == LookupStep(pe, name, lo)
             lf == IF lo = "ok" THEN "none" ELSE "lookup"
         IN
         IF l.next # "create"
         THEN [ret |-> l.id, people |-> pe, fail |-> lf, via |-> "lookup"]
         ELSE LET sf == IF lf # "none" THEN lf
                        ELSE IF so \in {"ok", "notlisted"} THEN "none" ELSE "schema"
              IN
              IF so = "raise"
              THEN [ret |-> NoId, people |-> pe, fail |-> sf, via |-> "schema"]
              ELSE LET c == CreateStep(pe, ChooseNameField(lay, so), name, co) IN
                   [ret |-> c.id, people |-> c.people,
                    fail |-> (IF sf # "none" THEN sf ELSE IF co = "ok" THEN "none" ELSE "create"),
                    via |-> "create"]

----------------------------------------------------------------------------
(* Configuration (lines 13-19) and what a remote call can do without it *)

RequiredKeys == {"FATHOM_API_KEY", "AIRTABLE_API_KEY", "AIRTABLE_BASE_ID",
                 "AIRTABLE_MEETINGS_TABLE", "AIRTABLE_ACTION_ITEMS_TABLE"}

\* every key set, or exactly one of them absent
Configs == {RequiredKeys} \cup {RequiredKeys \ {k} : k \in RequiredKeys}

FathomReady(cfg) == "FATHOM_API_KEY" \in cfg

AirtableReady(cfg) == {"AIRTABLE_API_KEY", "AIRTABLE_BASE_ID"} \subseteq cfg

\* A call sent without its credential, or to a URL built from an absent
\* identifier, is still sent; it cannot be answered with success.
Possible(ready, outcomes) == IF ready THEN outcomes ELSE outcomes \ {"ok", "nokey", "notlisted"}

----------------------------------------------------------------------------
(* The inbound request and the source listing *)

\* A recording identifier arrives as a JSON number or a JSON string.
IntId(d) == <<"int", d>>

StrId(d) == <<"str", d>>

\* Python's str() of an identifier (or of None)
str(x) == IF x = None THEN <<"str", "None">> ELSE <<"str", x[2]>>

\* a or b
Or(a, b) == IF Truthy(a) THEN a ELSE b

Payload(present, rid, cid) == [present |-> present, recording_id |-> rid, call_id |-> cid]

Requests ==
    {[method |-> "GET", data |-> Payload(FALSE, None, None)],
     [method |-> "POST", data |-> Payload(FALSE, None, None)],
     [method |-> "POST", data |-> Payload(TRUE, None, None)],
     [method |-> "POST", data |-> Payload(TRUE, IntId("1"), None)],
     [method |-> "POST", data |-> Payload(TRUE, None, StrId("1"))]}

T1000 == <<"2024-01-01T10:00:00Z">>

T1030 == <<"2024-01-01T10:30:00Z">>

BadTime == <<"yesterday">>

TimeValues == {None, BadTime, T1000, T1030}

\* datetime.fromisoformat(t.replace('Z', '+00:00')) succeeds
Parses(t) == t \in {T1000, T1030}

\* seconds since midnight of the parsed timestamp
Seconds(t) == IF t = T1000 THEN 36000 ELSE 37800

Absent == [present |-> FALSE, v |-> 0]

Present(n) == [present |-> TRUE, v |-> n]

\* Lines 241-250: duration from the recording's start and end time
Duration(m) ==
    IF /\ Truthy(m.recording_start_time) /\ Truthy(m.recording_end_time)
       /\ Parses(m.recording_start_time) /\ Parses(m.recording_end_time)
    THEN Present(Seconds(m.recording_end_time) - Seconds(m.recording_start_time))
    ELSE Absent

\* A raw action item: a structured item (description, optional assignee
\* object carrying a name) or a plain string.
DictItem(desc, who) == [kind |-> "dict", description |-> desc, assignee |-> who]

StrItem(text) == [kind |-> "str", description |-> text, assignee |-> None]

Invitee(name, email) == [name |-> name, email |-> email]

Untitled == <<"Untitled Meeting">>

\* Lines 225-228: invitee.get('name', invitee.get('email', ''))
InviteeName(v) == IF v.name # None THEN v.name ELSE IF v.email # None THEN v.email ELSE <<>>

\* Lines 220-275: the CallData built from the raw meeting found; "raised"
\* when item.get fails on a plain-string action item (line 234), which is
\* no RequestException and leaves fetch_fathom_call_data as an exception.
Normalize(rid, m) ==
    IF \E i \in 1..Len(m.action_items) : m.action_items[i].kind # "dict"
    THEN [raised |-> TRUE]
    ELSE [raised |-> FALSE,
          call_id |-> str(rid),
          recording_id |-> rid,
          meeting_id |-> m.id,
          title |-> Or(m.title, Untitled),
          start_time |-> Or(m.recording_start_time, m.scheduled_start_time),
          end_time |-> Or(m.recording_end_time, m.scheduled_end_time),
          duration |-> Duration(m),
          action_items |-> [i \in 1..Len(m.action_items) |->
                               DictItem(m.action_items[i].description, m.action_items[i].assignee)],
          participants |-> [i \in 1..Len(m.calendar_invitees) |->
                               InviteeName(m.calendar_invitees[i])]]

NoCallData == [raised |-> FALSE]

\* The first item of the page taken, whatever its recording_id.
MatchIndexAnyItem(page, rid) == IF page # <<>> THEN 1 ELSE 0

\* The last item of the page whose recording_id equals the requested one.
MatchIndexLastItem(page, rid) ==
    IF \E i \in 1..Len(page) : str(page[i].recording_id) = str(rid)
    THEN CHOOSE i \in 1..Len(page) :
            /\ str(page[i].recording_id) = str(rid)
            /\ \A j \in (i + 1)..Len(page) : str(page[j].recording_id) # str(rid)
    ELSE 0

\* Lines 193-199 and 210-213: the first item of the page whose recording_id
\* equals the requested one as strings; 0 when the page has none
MatchIndex(page, rid) ==
    IF \E i \in 1..Len(page) : str(page[i].recording_id) = str(rid)
    THEN CHOOSE i \in 1..Len(page) :
            /\ str(page[i].recording_id) = str(rid)
            /\ \A j \in 1..(i - 1) : str(page[j].recording_id) # str(rid)
    ELSE 0

NoCalls == [fathom |-> 0, reads |-> 0, writes |-> 0]

NoResponse == [status |-> 0, error |-> "pending", action_items_created |-> 0]

Respond(status, error, n) == [status |-> status, error |-> error, action_items_created |-> n]

\* No webhook request is in progress.
NoRequest ==
    /\ request = [method |-> "GET", data |-> Payload(FALSE, None, None)]
    /\ listing = <<>>
    /\ tables = [meetings |-> <<>>, items |-> <<>>]
    /\ rpc = "done"
    /\ recording_id = None
    /\ pageNo = 0
    /\ call_data = NoCallData
    /\ linked = {}
    /\ item_linked = {}
    /\ names = <<>>
    /\ ids = <<>>
    /\ idx = 0
    /\ meeting_record_id = NoId
    /\ created_count = 0
    /\ meeting_sent = <<>>
    /\ items_sent = <<>>
    /\ calls = NoCalls
    /\ response = NoResponse

----------------------------------------------------------------------------
(* The People table and the callers of the reconciler *)

\* Two webhook requests can run at once (section 5 of the specification).
Callers == {1, 2}

MaxCalls == 2

Bo == <<"B", "o">>

Cy == <<"C", "y">>

RecNames == {Bo, Cy, <<>>}

Field(n, t) == [name |-> n, type |-> t]

LayoutNameFirst == <<Field("Name", "singleLineText"), Field("Email", "email")>>

LayoutEmailFirst == <<Field("Email", "email"), Field("Name", "singleLineText")>>

LayoutNotesFirst == <<Field("Notes", "multilineText"), Field("Name", "singleLineText")>>

LayoutNoText == <<Field("Name", "multilineText"), Field("Meetings", "multipleRecordLinks")>>

Layouts == {LayoutNameFirst, LayoutEmailFirst, LayoutNotesFirst, LayoutNoText}

InitialPeople == {<<>>, <<[id |-> 1, field |-> "Name", value |-> Bo]>>}

Idle == [p \in Callers |-> "idle"]

NoNames == [p \in Callers |-> None]

NoFields == [p \in Callers |-> "none"]

InitReconciler ==
    /\ people \in InitialPeople
    /\ layout \in Layouts
    /\ pc = Idle
    /\ fcName = NoNames
    /\ fcField = NoFields
    /\ fcFail = NoFields
    /\ hist = <<>>
    /\ config = RequiredKeys
    /\ NoRequest

Started == Len(hist) + Cardinality({p \in Callers : pc[p] # "idle"})

\* A completed call: who made it, for which name, what it returned, the
\* first of its remote calls that failed ("none" when all succeeded), where
\* it returned from ("entry", "lookup", "schema" or "create") and whether it
\* added a People record.
Call(p, name, ret, fail, via, created) ==
    [caller |-> p, name |-> name, ret |-> ret, fail |-> fail, via |-> via, created |-> created]

Ok(c) == c.fail = "none"

\* The first failure of a call: the one already noted, else this call's when it failed.
FirstFail(sofar, step, succeeded) ==
    IF sofar # "none" THEN sofar ELSE IF succeeded THEN "none" ELSE step

\* The call of caller p returns ret: its frame is dropped and the call recorded.
Return(p, ret, fail, via, created) ==
    /\ hist' = Append(hist, Call(p, fcName[p], ret, fail, via, created))
    /\ pc' = [pc EXCEPT ![p] = "idle"]
    /\ fcName' = [fcName EXCEPT ![p] = None]
    /\ fcField' = [fcField EXCEPT ![p] = "none"]
    /\ fcFail' = [fcFail EXCEPT ![p] = "none"]

\* Lines 330-354: entry; an empty name returns None with no remote call.
FcCall(p) ==
    /\ pc[p] = "idle"
    /\ Started < MaxCalls
    /\ \E name \in RecNames :
         IF ~Truthy(name)
         THEN /\ hist' = Append(hist, Call(p, name, NoId, "none", "entry", FALSE))
              /\ UNCHANGED <<people, layout, pc, fcName, fcField, fcFail>>
         ELSE /\ pc' = [pc EXCEPT ![p] = "lookup"]
              /\ fcName' = [fcName EXCEPT ![p] = name]
              /\ UNCHANGED <<people, layout, fcField, fcFail, hist>>

\* Lines 356-364: the exact-match query.
FcLookup(p) ==
    /\ pc[p] = "lookup"
    /\ \E o \in Possible(AirtableReady(config), LookupOutcomes) :
         LET l == LookupStep(people, fcName[p], o) IN
         IF l.next = "create"
         THEN /\ pc' = [pc EXCEPT ![p] = "schema"]
              /\ fcFail' = [fcFail EXCEPT ![p] = FirstFail("none", "lookup", o = "ok")]
              /\ UNCHANGED <<fcName, fcField, hist>>
         ELSE Return(p, l.id, FirstFail("none", "lookup", o = "ok"), "lookup", FALSE)
    /\ UNCHANGED <<people, layout>>

\* Lines 366-385: the schema fetch that chooses name_field.
FcSchemaFetch(p) ==
    /\ pc[p] = "schema"
    /\ \E o \in Possible(AirtableReady(config), SchemaOutcomes) :
         IF o = "raise"
         THEN Return(p, NoId, FirstFail(fcFail[p], "schema", FALSE), "schema", FALSE)
         ELSE /\ pc' = [pc EXCEPT ![p] = "create"]
              /\ fcField' = [fcField EXCEPT ![p] = ChooseNameField(layout, o)]
              /\ fcFail' = [fcFail EXCEPT ![p] = FirstFail(fcFail[p], "schema", o \in {"ok", "notlisted"})]
              /\ UNCHANGED <<fcName, hist>>
    /\ UNCHANGED <<people, layout>>

\* Lines 387-400: the create call.
FcCreate(p) ==
    /\ pc[p] = "create"
    /\ \E o \in Possible(AirtableReady(config), CreateOutcomes) :
         LET c == CreateStep(people, fcField[p], fcName[p], o) IN
         /\ people' = c.people
         /\ Return(p, c.id, FirstFail(fcFail[p], "create", o = "ok"), "create", c.people # people)
    /\ UNCHANGED layout

NextReconciler ==
    /\ \E p \in Callers : FcCall(p) \/ FcLookup(p) \/ FcSchemaFetch(p) \/ FcCreate(p)
    /\ UNCHANGED webVars

SpecReconciler == InitReconciler /\ [][NextReconciler]_vars

----------------------------------------------------------------------------
(* Schema Adapter: get_linked_record_fields *)

LinkTypes == {"multipleRecordLinks", "singleCollaborator", "multipleCollaborators"}

\* The link fields of the layout, however the schema call ended.
get_linked_record_fields_any_outcome(lay, o) ==
    {lay[i].name : i \in {k \in 1..Len(lay) : lay[k].type \in LinkTypes}}

\* Lines 286-310: the names of the table's fields of a link type; the empty
\* set when the schema call fails or does not list the table.
get_linked_record_fields(lay, o) ==
    IF o = "ok" THEN {lay[i].name : i \in {k \in 1..Len(lay) : lay[k].type \in LinkTypes}}
    ELSE {}

\* How the schema call for the table named by configuration key k can end.
TableSchemaOutcomes(cfg, k) ==
    IF ~AirtableReady(cfg) THEN {"status", "raise"}
    ELSE IF k \in cfg THEN SchemaOutcomes ELSE SchemaOutcomes \ {"ok"}

PostOutcomes == {"ok", "status", "raise"}

\* The remote calls one find_or_create_participant call issued.
AddFcCalls(c, r) ==
    [c EXCEPT !.reads = @ + (IF r.via = "entry" THEN 0 ELSE IF r.via = "lookup" THEN 1 ELSE 2),
              !.writes = @ + (IF r.via = "create" THEN 1 ELSE 0)]

\* One more remote call, of kind k ("fathom", "reads" or "writes").
AddCall(c, k) == [c EXCEPT ![k] = @ + 1]

----------------------------------------------------------------------------
(* Meeting record: upload_meeting_to_airtable *)

NoLink == [kind |-> "absent", ids |-> <<>>, strs |-> <<>>]

IdLink(v) == [kind |-> "ids", ids |-> v, strs |-> <<>>]

StrValue(v) == [kind |-> "strs", ids |-> <<>>, strs |-> v]

\* Lines 419-422
participant_names(cd) == [i \in 1..Len(cd.participants) |-> reformat_name(cd.participants[i])]

\* The names sent into the link field when some participant has no identifier.
ParticipantsFieldNameFallback(lf, pn, pids) ==
    IF "Participants" \in lf /\ Len(pids) = Len(pn)
    THEN IF pids # <<>> THEN IdLink(pids) ELSE NoLink
    ELSE IF pn # <<>> THEN StrValue(pn) ELSE NoLink

\* Lines 468-476
ParticipantsField(lf, pn, pids) ==
    IF "Participants" \in lf
    THEN IF pids # <<>> THEN IdLink(pids) ELSE NoLink
    ELSE IF pn # <<>> THEN StrValue(pn) ELSE NoLink

\* Lines 436-489: the fields of the meeting record
MeetingFields(cd, lf, pn, pids) ==
    [Title |-> IF Truthy(cd.title) /\ "Title" \notin lf THEN cd.title ELSE None,
     StartTime |-> IF Truthy(cd.start_time) /\ "Start Time" \notin lf THEN cd.start_time ELSE None,
     Duration |-> IF cd.duration.present /\ "Duration" \notin lf THEN cd.duration ELSE Absent,
     Participants |-> ParticipantsField(lf, pn, pids),
     FathomCallID |-> IF Truthy(Or(cd.call_id, cd.recording_id)) /\ "Fathom Call ID" \notin lf
                      THEN str(Or(cd.call_id, cd.recording_id)) ELSE None]

\* the identifier the destination gives the meeting record it creates
NewMeetingId(sent) == 101 + Len(sent)

----------------------------------------------------------------------------
(* Action-item records: create_action_items *)

\* Lines 576-585
ItemText(item) == item.description

ItemAssignee(item) == IF item.kind = "dict" THEN item.assignee ELSE None

\* Lines 590-596: the assignee given, else the one extracted from the text, reformatted
AssigneeName(item) ==
    LET given == ItemAssignee(item)
        found == IF Truthy(given) THEN given ELSE extract_assignee(ItemText(item))
    IN  IF Truthy(found) THEN reformat_name(found) ELSE found

\* The name sent whenever there is no identifier, whatever the field's type.
AssignedToFieldNameFallback(lf, who, rec) ==
    IF rec # NoId THEN IdLink(<<rec>>)
    ELSE IF Truthy(who) THEN StrValue(<<who>>)
    ELSE NoLink

\* Lines 620-625
AssignedToField(lf, who, rec) ==
    IF rec # NoId THEN IdLink(<<rec>>)
    ELSE IF Truthy(who) /\ "Assigned To" \notin lf THEN StrValue(<<who>>)
    ELSE NoLink

\* Lines 606-625: the fields of one action-item record
ItemFields(text, who, rec, lf, mid) ==
    [Description |-> text,
     Status |-> "To Do",
     Meeting |-> IF mid # NoId THEN <<mid>> ELSE <<>>,
     AssignedTo |-> AssignedToField(lf, who, rec)]

----------------------------------------------------------------------------
(* One webhook request: fathom_webhook *)

Finish(resp) ==
    /\ rpc' = "done"
    /\ response' = resp

\* Lines 28-45: the request is checked and recording_id read.
Webhook ==
    /\ rpc = "recv"
    /\ IF request.method # "POST"
       THEN Finish(Respond(405, "method", 0)) /\ UNCHANGED recording_id
       ELSE IF ~request.data.present
       THEN Finish(Respond(400, "nodata", 0)) /\ UNCHANGED recording_id
       ELSE IF ~Truthy(Or(request.data.recording_id, request.data.call_id))
       THEN Finish(Respond(400, "noid", 0)) /\ UNCHANGED recording_id
       ELSE /\ rpc' = "fetch"
            /\ recording_id' = Or(request.data.recording_id, request.data.call_id)
            /\ UNCHANGED response
    /\ UNCHANGED <<people, layout, hist, fcVars, config, request, listing, tables, pageNo,
                   call_data, linked, item_linked, names, ids, idx, meeting_record_id,
                   created_count, meeting_sent, items_sent, calls>>

\* Lines 188-283 and 48-51: one page of the listing is requested and searched;
\* the recording found is normalized.  pageNo counts the pages received.
FetchPage ==
    /\ rpc = "fetch"
    /\ \E o \in Possible(FathomReady(config), {"ok", "status", "raise"}) :
         /\ calls' = AddCall(calls, "fathom")
         /\ IF o # "ok"
            THEN Finish(Respond(500, "fetch", 0)) /\ UNCHANGED <<pageNo, call_data>>
            ELSE LET page == listing[pageNo + 1]
                     i == MatchIndex(page, recording_id)
                 IN  IF i > 0
                     THEN IF Normalize(recording_id, page[i]).raised
                          THEN /\ Finish(Respond(500, "exception", 0))
                               /\ pageNo' = pageNo + 1
                               /\ UNCHANGED call_data
                          ELSE /\ call_data' = Normalize(recording_id, page[i])
                               /\ rpc' = "upload"
                               /\ pageNo' = pageNo + 1
                               /\ UNCHANGED response
                     ELSE IF pageNo + 1 < Len(listing)
                          THEN /\ pageNo' = pageNo + 1
                               /\ UNCHANGED <<rpc, response, call_data>>
                          ELSE /\ Finish(Respond(500, "fetch", 0))
                               /\ pageNo' = pageNo + 1
                               /\ UNCHANGED call_data
    /\ UNCHANGED <<people, layout, hist, fcVars, config, request, listing, tables,
                   recording_id, linked, item_linked, names, ids, idx, meeting_record_id,
                   created_count, meeting_sent, items_sent>>

\* Lines 413-422: the meetings table is classified and the names reformatted.
UploadSchema ==
    /\ rpc = "upload"
    /\ \E o \in TableSchemaOutcomes(config, "AIRTABLE_MEETINGS_TABLE") :
         /\ calls' = AddCall(calls, "reads")
         /\ linked' = get_linked_record_fields(tables.meetings, o)
         /\ names' = participant_names(call_data)
         /\ ids' = <<>>
         /\ idx' = 1
         /\ rpc' = IF "Participants" \in linked' /\ names' # <<>> THEN "people" ELSE "post"
    /\ UNCHANGED <<people, layout, hist, fcVars, config, request, listing, tables,
                   recording_id, pageNo, call_data, item_linked, meeting_record_id,
                   created_count, meeting_sent, items_sent, response>>

\* What find_or_create_participant can do for a name, over every way its
\* remote calls can end.
Reconciliations(cfg, pe, lay, name) ==
    {find_or_create_participant(pe, lay, name, lo, so, co) :
        lo \in Possible(AirtableReady(cfg), LookupOutcomes),
        so \in Possible(AirtableReady(cfg), SchemaOutcomes),
        co \in Possible(AirtableReady(cfg), CreateOutcomes)}

\* Lines 428-431: one participant is reconciled.
UploadParticipant ==
    /\ rpc = "people"
    /\ \E r \in Reconciliations(config, people, layout, names[idx]) :
         /\ people' = r.people
         /\ hist' = Append(hist, Call(1, names[idx], r.ret, r.fail, r.via, r.people # people))
         /\ ids' = IF r.ret # NoId THEN Append(ids, r.ret) ELSE ids
         /\ calls' = AddFcCalls(calls, r)
    /\ idx' = idx + 1
    /\ rpc' = IF idx = Len(names) THEN "post" ELSE "people"
    /\ UNCHANGED <<layout, fcVars, config, request, listing, tables, recording_id, pageNo,
                   call_data, linked, item_linked, names, meeting_record_id, created_count,
                   meeting_sent, items_sent, response>>

\* The request going on to the action items whether or not the meeting
\* record was created.
UploadPostThenItems ==
    /\ rpc = "post"
    /\ \E o \in Possible(AirtableReady(config) /\ "AIRTABLE_MEETINGS_TABLE" \in config, PostOutcomes) :
         /\ calls' = AddCall(calls, "writes")
         /\ meeting_sent' = Append(meeting_sent,
                [fields |-> MeetingFields(call_data, linked, names, ids), ok |-> (o = "ok")])
         /\ meeting_record_id' = IF o = "ok" THEN NewMeetingId(meeting_sent) ELSE NoId
         /\ rpc' = "items"
    /\ UNCHANGED <<people, layout, hist, fcVars, config, request, listing, tables,
                   recording_id, pageNo, call_data, linked, item_linked, names, ids, idx,
                   created_count, items_sent, response>>

\* Lines 434-511 and 54-59: the meeting record is sent.
UploadPost ==
    /\ rpc = "post"
    /\ \E o \in Possible(AirtableReady(config) /\ "AIRTABLE_MEETINGS_TABLE" \in config, PostOutcomes) :
         /\ calls' = AddCall(calls, "writes")
         /\ meeting_sent' = Append(meeting_sent,
                [fields |-> MeetingFields(call_data, linked, names, ids), ok |-> (o = "ok")])
         /\ IF o = "ok"
            THEN /\ meeting_record_id' = NewMeetingId(meeting_sent)
                 /\ rpc' = "items"
                 /\ UNCHANGED response
            ELSE Finish(Respond(500, "upload", 0)) /\ UNCHANGED meeting_record_id
    /\ UNCHANGED <<people, layout, hist, fcVars, config, request, listing, tables,
                   recording_id, pageNo, call_data, linked, item_linked, names, ids, idx,
                   created_count, items_sent>>

\* Lines 559-573 and 62-74: create_action_items is entered; with no action
\* items it returns 0, else the action-items table is classified.
ItemsStart ==
    /\ rpc = "items"
    /\ IF call_data.action_items = <<>>
       THEN /\ Finish(Respond(200, "none", 0))
            /\ UNCHANGED <<item_linked, idx, created_count, calls>>
       ELSE /\ \E o \in TableSchemaOutcomes(config, "AIRTABLE_ACTION_ITEMS_TABLE") :
                 /\ calls' = AddCall(calls, "reads")
                 /\ item_linked' = get_linked_record_fields(tables.items, o)
            /\ idx' = 1
            /\ created_count' = 0
            /\ rpc' = "item"
            /\ UNCHANGED response
    /\ UNCHANGED <<people, layout, hist, fcVars, config, request, listing, tables,
                   recording_id, pageNo, call_data, linked, names, ids, meeting_record_id,
                   meeting_sent, items_sent>>

\* The count raised for every create call issued, failed or not.
CountAfterAnyCall(count, po) == count + 1

\* Lines 635-647: created_count after the create call of one item
CountAfter(count, po) == IF po = "ok" THEN count + 1 ELSE count

\* After item idx: the next item, or the success response (lines 649, 68-74).
ItemDone(count) ==
    IF idx = Len(call_data.action_items)
    THEN Finish(Respond(200, "none", count)) /\ UNCHANGED idx
    ELSE idx' = idx + 1 /\ UNCHANGED <<rpc, response>>

\* Lines 575-647: one action item is processed.
CreateItem ==
    /\ rpc = "item"
    /\ \E item \in {call_data.action_items[idx]} :
         IF ~Truthy(ItemText(item))
         THEN /\ ItemDone(created_count)
              /\ UNCHANGED <<people, hist, created_count, items_sent, calls>>
         ELSE \E who \in {AssigneeName(item)} :
              \E r \in Reconciliations(config, people, layout, who) :
              \E po \in Possible(AirtableReady(config) /\ "AIRTABLE_ACTION_ITEMS_TABLE" \in config,
                                 PostOutcomes) :
                  /\ people' = r.people
                  /\ hist' = IF Truthy(who)
                             THEN Append(hist, Call(1, who, r.ret, r.fail, r.via, r.people # people))
                             ELSE hist
                  /\ calls' = AddCall(AddFcCalls(calls, r), "writes")
                  /\ items_sent' = Append(items_sent,
                         [src |-> idx, assignee |-> who, rec |-> r.ret,
                          fields |-> ItemFields(ItemText(item), who, r.ret, item_linked, meeting_record_id),
                          ok |-> (po = "ok")])
                  /\ created_count' = CountAfter(created_count, po)
                  /\ ItemDone(created_count')
    /\ UNCHANGED <<layout, fcVars, config, request, listing, tables, recording_id, pageNo,
                   call_data, linked, item_linked, names, ids, meeting_record_id, meeting_sent>>

NextWeb ==
    \/ Webhook
    \/ FetchPage
    \/ UploadSchema
    \/ UploadParticipant
    \/ UploadPost
    \/ ItemsStart
    \/ CreateItem

----------------------------------------------------------------------------
(* The requests checked: what the source lists and how the destination is laid out *)

MaxInvitees == 2

MaxActionItems == 2

SeqsUpTo(S, n) == UNION {[1..k -> S] : k \in 0..n}

DoAl == <<"D", "o", ",", " ", "A", "l">>

Mail == <<"e", "@", "x">>

Task == <<"x">>

CyTask == <<"C", "y", " ", "t", "o", " ", "x">>

Title == <<"Q", "3">>

InviteeKinds == {Invitee(Bo, Mail), Invitee(DoAl, None), Invitee(None, Mail)}

ItemKinds == {DictItem(Task, Bo), DictItem(CyTask, None), DictItem(Task, None),
              DictItem(<<>>, Bo), StrItem(CyTask)}

Times(rs, re, ss, se) == [rs |-> rs, re |-> re, ss |-> ss, se |-> se]

\* a raw meeting of the listing
Meeting(rid, id, t, invitees, items) ==
    [recording_id |-> rid, id |-> id, title |-> Title,
     recording_start_time |-> t.rs, recording_end_time |-> t.re,
     scheduled_start_time |-> t.ss, scheduled_end_time |-> t.se,
     calendar_invitees |-> invitees, action_items |-> items]

UsualTimes == Times(T1000, T1030, None, None)

\* The listings: the recording asked for on the first page, on the second
\* page behind another recording (its identifier a string there), twice on
\* one page, or on no page.
Listings(t, invitees, items) ==
    {<< <<Meeting(IntId("1"), 11, t, invitees, items)>> >>,
     << <<Meeting(IntId("2"), 11, t, invitees, items)>>,
        <<Meeting(IntId("2"), 21, t, invitees, items), Meeting(StrId("1"), 22, t, invitees, items)>> >>,
     << <<Meeting(IntId("2"), 11, t, invitees, items), Meeting(IntId("1"), 12, t, invitees, items),
          Meeting(StrId("1"), 13, t, invitees, items)>>,
        <<Meeting(IntId("1"), 21, t, invitees, items)>> >>,
     << <<Meeting(IntId("2"), 11, t, invitees, items)>>, <<>> >>}

FirstPageListing(t, invitees, items) == << <<Meeting(IntId("1"), 11, t, invitees, items)>> >>

MeetingsLayouts ==
    {<<Field("Title", "singleLineText"), Field("Participants", "multipleRecordLinks")>>,
     <<Field("Title", "singleLineText"), Field("Participants", "multilineText")>>,
     <<Field("Title", "multipleRecordLinks"), Field("Participants", "multipleCollaborators")>>}

ItemsLayouts ==
    {<<Field("Assigned To", "multipleRecordLinks"), Field("Meeting", "multipleRecordLinks")>>,
     <<Field("Assigned To", "singleLineText"), Field("Meeting", "multipleRecordLinks")>>,
     <<Field("Assigned To", "singleCollaborator"), Field("Description", "multilineText")>>}

UsualMeetings == <<Field("Title", "singleLineText"), Field("Participants", "multipleRecordLinks")>>

UsualItems == <<Field("Assigned To", "multipleRecordLinks"), Field("Meeting", "multipleRecordLinks")>>

UsualRequest == [method |-> "POST", data |-> Payload(TRUE, IntId("1"), None)]

Scenario(cfg, req, lst, mt, it, pe, lay) ==
    [config |-> cfg, request |-> req, listing |-> lst, meetings |-> mt, items |-> it,
     people |-> pe, layout |-> lay]

\* Every request and configuration, against every listing.
RequestScenarios ==
    {Scenario(cfg, req, lst, UsualMeetings, UsualItems, <<>>, LayoutNameFirst) :
        cfg \in Configs, req \in Requests,
        lst \in Listings(UsualTimes, <<Invitee(Bo, Mail)>>, <<DictItem(CyTask, None)>>)}

\* The People table a request runs against: holding a record for Bo under
\* 'Name', or empty with 'Email' as its first text field.
Stores ==
    {[people |-> <<[id |-> 1, field |-> "Name", value |-> Bo]>>, layout |-> LayoutNameFirst],
     [people |-> <<>>, layout |-> LayoutEmailFirst]}

\* Every invitee list, against every meetings table.
InviteeScenarios ==
    {Scenario(RequiredKeys, UsualRequest, FirstPageListing(UsualTimes, inv, <<>>), mt, UsualItems,
              st.people, st.layout) :
        inv \in SeqsUpTo(InviteeKinds, MaxInvitees), mt \in MeetingsLayouts, st \in Stores}

\* Every action-item list, against every action-items table.
ItemScenarios ==
    {Scenario(RequiredKeys, UsualRequest, FirstPageListing(UsualTimes, <<>>, items), UsualMeetings, it,
              st.people, st.layout) :
        items \in SeqsUpTo(ItemKinds, MaxActionItems), it \in ItemsLayouts, st \in Stores}

\* Every combination of recording and scheduled start and end times.
TimeScenarios ==
    {Scenario(RequiredKeys, UsualRequest, FirstPageListing(Times(rs, re, ss, se), <<>>, <<>>),
              UsualMeetings, UsualItems, <<>>, LayoutNameFirst) :
        rs \in TimeValues, re \in TimeValues, ss \in TimeValues, se \in TimeValues}

Scenarios == RequestScenarios \cup InviteeScenarios \cup ItemScenarios \cup TimeScenarios

InitOf(S) ==
    /\ \E sc \in S :
         /\ config = sc.config
         /\ request = sc.request
         /\ listing = sc.listing
         /\ tables = [meetings |-> sc.meetings, items |-> sc.items]
         /\ people = sc.people
         /\ layout = sc.layout
    /\ pc = Idle
    /\ fcName = NoNames
    /\ fcField = NoFields
    /\ fcFail = NoFields
    /\ hist = <<>>
    /\ rpc = "recv"
    /\ recording_id = None
    /\ pageNo = 0
    /\ call_data = NoCallData
    /\ linked = {}
    /\ item_linked = {}
    /\ names = <<>>
    /\ ids = <<>>
    /\ idx = 0
    /\ meeting_record_id = NoId
    /\ created_count = 0
    /\ meeting_sent = <<>>
    /\ items_sent = <<>>
    /\ calls = NoCalls
    /\ response = NoResponse

Init == InitOf(Scenarios)

Next == NextWeb

Spec == Init /\ [][Next]_vars

----------------------------------------------------------------------------
(* The walk of the listing alone: fetch_fathom_call_data over longer chains *)

\* Three pages: the recording on the last one behind an empty page, or on none.
LongListings(t, invitees, items) ==
    {<< <<Meeting(IntId("2"), 11, t, invitees, items)>>, <<>>,
        <<Meeting(IntId("2"), 31, t, invitees, items), Meeting(StrId("1"), 32, t, invitees, items),
          Meeting(IntId("1"), 33, t, invitees, items)>> >>,
     << <<Meeting(IntId("2"), 11, t, invitees, items)>>, <<>>,
        <<Meeting(IntId("3"), 31, t, invitees, items)>> >>}

FetchScenarios ==
    {Scenario(cfg, req, lst, UsualMeetings, UsualItems, <<>>, LayoutNameFirst) :
        cfg \in Configs, req \in Requests,
        lst \in Listings(UsualTimes, <<>>, <<>>) \cup LongListings(UsualTimes, <<>>, <<>>)}

InitFetch == InitOf(FetchScenarios)

NextFetch ==
    \/ Webhook
    \/ FetchPage

\* Each page request is a blocking call that returns or raises (lines 189-190
\* and 207-208): the handler always takes its next step.
SpecFetch == InitFetch /\ [][NextFetch]_vars /\ WF_vars(NextFetch)

----------------------------------------------------------------------------
(* Name canonicalization alone: reformat_name applied, and applied again *)

MaxNameLen == 4

NameChars == {"a", "b", " ", ","}

\* Every name of at most MaxNameLen letters, spaces and commas.
NameInputs == SeqsUpTo(NameChars, MaxNameLen)

\* names holds the name given, then each result of reformat_name.
InitNames ==
    /\ names \in {<<n>> : n \in NameInputs}
    /\ people = <<>>
    /\ layout = LayoutNameFirst
    /\ pc = Idle
    /\ fcName = NoNames
    /\ fcField = NoFields
    /\ fcFail = NoFields
    /\ hist = <<>>
    /\ config = RequiredKeys
    /\ request = [method |-> "GET", data |-> Payload(FALSE, None, None)]
    /\ listing = <<>>
    /\ tables = [meetings |-> <<>>, items |-> <<>>]
    /\ rpc = "done"
    /\ recording_id = None
    /\ pageNo = 0
    /\ call_data = NoCallData
    /\ linked = {}
    /\ item_linked = {}
    /\ ids = <<>>
    /\ idx = 0
    /\ meeting_record_id = NoId
    /\ created_count = 0
    /\ meeting_sent = <<>>
    /\ items_sent = <<>>
    /\ calls = NoCalls
    /\ response = NoResponse

\* Lines 312-328 applied to the last name held, at most twice.
Canonicalize ==
    /\ Len(names) < 3
    /\ names' = Append(names, reformat_name(names[Len(names)]))
    /\ UNCHANGED <<people, layout, hist, fcVars, config, request, listing, tables, rpc,
                   recording_id, pageNo, call_data, linked, item_linked, ids, idx,
                   meeting_record_id, created_count, meeting_sent, items_sent, calls, response>>

NextNames == Canonicalize

SpecNames == InitNames /\ [][NextNames]_vars

----------------------------------------------------------------------------
(* Claims about one webhook request, checked under Spec *)

\* The request passed the checks of lines 28-43.
Accepted == recording_id # None

\* Some page of the listing holds a recording with the requested identifier.
Listed ==
    \E p \in 1..Len(listing) : \E i \in 1..Len(listing[p]) :
        str(listing[p][i].recording_id) = str(recording_id)

\* The first such recording, in page-then-item order.
Target ==
    LET p == Min({q \in 1..Len(listing) :
                    \E i \in 1..Len(listing[q]) : str(listing[q][i].recording_id) = str(recording_id)})
        i == Min({j \in 1..Len(listing[p]) : str(listing[p][j].recording_id) = str(recording_id)})
    IN  listing[p][i]

\* C1: the 'Assigned To' field of every action-item record sent is the
\* one-element identifier array when reconciliation returned an identifier,
\* else the literal name only if 'Assigned To' is not classified
\* cross-reference, else absent; a name string is never sent into a
\* cross-reference 'Assigned To'.
C1_AssignedToHonoursSchema ==
    \A k \in 1..Len(items_sent) :
        LET e == items_sent[k]
            f == e.fields.AssignedTo
            scalar == "Assigned To" \notin item_linked
        IN  /\ e.rec # NoId => (f.kind = "ids" /\ f.ids = <<e.rec>>)
            /\ (e.rec = NoId /\ Truthy(e.assignee) /\ scalar) =>
                   (f.kind = "strs" /\ f.strs = <<e.assignee>>)
            /\ (e.rec = NoId /\ ~(Truthy(e.assignee) /\ scalar)) => f.kind = "absent"
            /\ ~(f.kind = "strs" /\ ~scalar)

\* An assignee that could not be reconciled, with 'Assigned To' a
\* cross-reference field: the field is left out of the record sent.
C1_Witness ==
    \E k \in 1..Len(items_sent) :
        /\ items_sent[k].rec = NoId
        /\ Truthy(items_sent[k].assignee)
        /\ "Assigned To" \in item_linked
        /\ items_sent[k].fields.AssignedTo.kind = "absent"

\* what the participant loop got back, in participant order
ParticipantResults == [i \in 1..Len(names) |-> hist[i].ret]

\* C2: with 'Participants' classified cross-reference, the 'Participants'
\* value of the meeting record sent holds exactly the identifiers
\* find_or_create_participant returned for the participant names, in
\* participant order, with the names that were not reconciled left out, and
\* never a name string.
C2_ParticipantsOnlyIdentifiers ==
    \A k \in 1..Len(meeting_sent) :
        "Participants" \in linked =>
            LET f == meeting_sent[k].fields.Participants IN
            /\ \A i \in 1..Len(names) : hist[i].name = names[i]
            /\ f.kind # "strs" /\ f.strs = <<>>
            /\ f.ids = SelectSeq(ParticipantResults, LAMBDA r : r # NoId)
            /\ f.kind = "absent" <=> f.ids = <<>>

\* Reconciliation failed for one of two participants: the record sent holds
\* the one identifier.
C2_Witness ==
    /\ "Participants" \in linked
    /\ Len(names) = 2
    /\ Len(meeting_sent) = 1
    /\ \E i \in 1..2 : hist[i].ret = NoId /\ hist[3 - i].ret # NoId
    /\ Len(meeting_sent[1].fields.Participants.ids) = 1

\* the action items with a non-empty description
WithText == {i \in 1..Len(call_data.action_items) : Truthy(ItemText(call_data.action_items[i]))}

Succeeded == {k \in 1..Len(items_sent) : items_sent[k].ok}

\* C4: a create call that fails never aborts the batch: while the items are
\* processed, and when the request is done, every item with a description
\* that the loop has passed had its create call issued, in source order, and
\* the count is the number of create calls that succeeded; the request then
\* ends with a success response carrying that count.
C4_FailureNeverAborts ==
    (meeting_record_id # NoId /\ rpc \in {"item", "done"}) =>
        LET passed == IF rpc = "done" THEN WithText ELSE {i \in WithText : i < idx} IN
        /\ {items_sent[k].src : k \in 1..Len(items_sent)} = passed
        /\ Len(items_sent) = Cardinality(passed)
        /\ \A k \in 1..(Len(items_sent) - 1) : items_sent[k].src < items_sent[k + 1].src
        /\ created_count = Cardinality(Succeeded)
        /\ rpc = "done" => response = Respond(200, "none", Cardinality(Succeeded))

\* The first create call failed and the second item was still written and counted.
C4_Witness ==
    /\ rpc = "done"
    /\ Len(items_sent) = 2
    /\ ~items_sent[1].ok
    /\ items_sent[2].ok
    /\ response = Respond(200, "none", 1)

\* structured items with an assignee and plain-string items, both kinds
\* there, each with text
Mixed(items) ==
    /\ \E i \in 1..Len(items) : items[i].kind = "str"
    /\ \E i \in 1..Len(items) : items[i].kind = "dict"
    /\ \A i \in 1..Len(items) :
         /\ Truthy(items[i].description)
         /\ items[i].kind = "dict" => Truthy(items[i].assignee)

\* No remote call of the request has failed.
NothingFailed ==
    /\ response.error \notin {"fetch", "upload"}
    /\ \A i \in 1..Len(hist) : Ok(hist[i])
    /\ \A k \in 1..Len(meeting_sent) : meeting_sent[k].ok
    /\ \A k \in 1..Len(items_sent) : items_sent[k].ok

\* the name the claim expects raw item it to be assigned to
ExpectedAssignee(it) ==
    IF it.kind = "dict" THEN reformat_name(it.assignee)
    ELSE reformat_name(extract_assignee(it.description))

\* C5: for a listed recording whose action items mix structured items with
\* an assignee and plain strings, with every remote call succeeding, the
\* request ends in success with one action-item record per raw item, in
\* source order, each linked to the meeting record created and assigned to
\* the person named by the assignee object, or extracted from the text.
C5_EndToEndMixedItems ==
    (rpc = "done" /\ Accepted /\ Listed /\ NothingFailed /\ Mixed(Target.action_items)) =>
        /\ response = Respond(200, "none", Len(Target.action_items))
        /\ meeting_record_id # NoId
        /\ Len(items_sent) = Len(Target.action_items)
        /\ \A k \in 1..Len(items_sent) :
             /\ items_sent[k].src = k
             /\ items_sent[k].fields.Meeting = <<meeting_record_id>>
             /\ items_sent[k].fields.AssignedTo.kind = "ids"
             /\ items_sent[k].assignee = ExpectedAssignee(Target.action_items[k])

\* C7: when no page of the listing holds a recording with the requested
\* identifier, no write is issued to the destination (no person, meeting or
\* action-item create) and the request ends with the fetch-failure response.
C7_NotFoundWritesNothing ==
    (Accepted /\ ~Listed) =>
        /\ calls.writes = 0
        /\ meeting_sent = <<>> /\ items_sent = <<>> /\ hist = <<>>
        /\ rpc = "done" => response = Respond(500, "fetch", 0)

\* Every page was fetched, none held the recording, and the request is over.
C7_Witness ==
    /\ Accepted /\ ~Listed
    /\ rpc = "done"
    /\ Len(listing) > 1
    /\ calls.fathom = Len(listing)
    /\ response.error = "fetch"

\* C8: with a required configuration key absent, the request is answered
\* with an error and no remote call is issued to the source or the destination.
C8_NoCallsWithoutConfig ==
    config # RequiredKeys =>
        /\ calls = NoCalls
        /\ rpc = "done" => response.status >= 400

\* C10: in every CallData, the duration is present if and only if the start
\* and the end timestamp it carries both parse.
C10_DurationIffBothParse ==
    call_data # NoCallData =>
        (call_data.duration.present <=>
            (Parses(call_data.start_time) /\ Parses(call_data.end_time)))

\* the meetings table has been classified for this request
Classified == call_data # NoCallData /\ rpc # "upload"

\* C11: a schema fetch that fails (transport error, non-success status, table
\* not listed) classifies no field as cross-reference; and whenever the
\* meetings table was classified with no cross-reference field, no
\* participant is reconciled and no remote call is made between the schema
\* fetch and the meeting create call, the meeting create call is issued, and
\* its 'Participants' value is the list of canonical participant names, as
\* strings.
C11_SchemaFailureWritesNames ==
    /\ \A lay \in MeetingsLayouts \cup ItemsLayouts : \A o \in SchemaOutcomes \ {"ok"} :
         get_linked_record_fields(lay, o) = {}
    /\ (Classified /\ linked = {}) =>
         /\ rpc # "people"
         /\ names = [i \in 1..Len(call_data.participants) |->
                        reformat_name(call_data.participants[i])]
         /\ rpc = "post" => (hist = <<>> /\ calls.reads = 1 /\ calls.writes = 0)
         /\ rpc # "post" =>
              /\ Len(meeting_sent) = 1
              /\ meeting_sent[1].fields.Participants.strs = names
              /\ meeting_sent[1].fields.Participants.ids = <<>>
              /\ meeting_sent[1].fields.Participants.kind = "strs" <=> names # <<>>

\* 'Participants' is a cross-reference field of the meetings table, the
\* schema fetch failed, and the meeting record was created with the two
\* participant names, one of them reformatted.
C11_Witness ==
    /\ Classified /\ linked = {}
    /\ "Participants" \in get_linked_record_fields(tables.meetings, "ok")
    /\ Len(meeting_sent) = 1
    /\ meeting_sent[1].ok
    /\ meeting_sent[1].fields.Participants.kind = "strs"
    /\ Len(meeting_sent[1].fields.Participants.strs) = 2
    /\ \E i \in 1..2 : call_data.participants[i] # names[i]

\* C12: within one request the meeting create call is issued at most once
\* and only after the fetch returned the listed recording; an action-item
\* create call is issued only after the meeting create call succeeded; and
\* when the meeting create call failed, the request is over with the
\* upload-failure response and no action-item create call.
C12_WritesOrdered ==
    /\ Len(meeting_sent) <= 1
    /\ meeting_sent # <<>> => (Accepted /\ Listed /\ call_data # NoCallData)
    /\ items_sent # <<>> =>
         (Len(meeting_sent) = 1 /\ meeting_sent[1].ok /\ meeting_record_id # NoId)
    /\ \A k \in 1..Len(meeting_sent) :
         ~meeting_sent[k].ok =>
             /\ rpc = "done"
             /\ response = Respond(500, "upload", 0)
             /\ items_sent = <<>>
             /\ meeting_record_id = NoId

\* The meeting create call failed for a recording that has action items.
C12_Witness ==
    /\ Len(meeting_sent) = 1
    /\ ~meeting_sent[1].ok
    /\ call_data.action_items # <<>>
    /\ rpc = "done"
    /\ response.status = 500
    /\ items_sent = <<>>

\* page p of the listing holds a recording with the requested identifier
HasMatch(p) ==
    \E i \in 1..Len(listing[p]) : str(listing[p][i].recording_id) = str(recording_id)

\* no page request of the walk has failed
PagesServed == calls.fathom = pageNo

\* The walk: pages are requested one at a time and never past the end of the
\* chain; a page is requested only while no page received holds a match; the
\* recording used is the first match in page-then-item order, found on the
\* last page received; and, the page requests having succeeded, not-found is
\* reported exactly when no page of the chain holds a match, after the whole
\* chain was read.
C13_Walk ==
    Accepted =>
        /\ pageNo <= calls.fathom /\ calls.fathom <= pageNo + 1
        /\ calls.fathom <= Len(listing)
        /\ \A p \in 1..(pageNo - 1) : ~HasMatch(p)
        /\ rpc = "fetch" => (PagesServed /\ pageNo < Len(listing) /\ \A p \in 1..pageNo : ~HasMatch(p))
        /\ call_data # NoCallData =>
             (PagesServed /\ HasMatch(pageNo) /\ call_data.meeting_id = Target.id)
        /\ (rpc # "fetch" /\ PagesServed) =>
             /\ (rpc = "done" /\ response = Respond(500, "fetch", 0)) <=> ~Listed
             /\ ~Listed => pageNo = Len(listing)
             /\ Listed => HasMatch(pageNo)

\* C13: fetch_fathom_call_data walks the listing page by page in cursor
\* order, stops at the first page holding a recording whose identifier equals
\* the requested one as strings, uses the first such recording in
\* page-then-item order, reports not-found exactly when the chain ends with no
\* match (its page requests succeeding), and terminates on every finite chain.
C13_WalkTerminates == []C13_Walk /\ ((rpc = "fetch") ~> (rpc # "fetch"))

\* The recording was found on the third page, behind an empty page, its
\* identifier a string there, and a second match after it on the page.
C13_Witness ==
    /\ rpc = "upload"
    /\ pageNo = 3 /\ calls.fathom = 3
    /\ listing[2] = <<>>
    /\ call_data.meeting_id = 32
    /\ listing[3][2].recording_id # recording_id

----------------------------------------------------------------------------
(* Claims about the reconciler, checked under SpecReconciler *)

\* No record was written between calls i and j by anyone else.
OnlyWriters(i, j) == \A k \in 1..j : hist[k].created => k \in {i, j}

\* C3: two sequential find_or_create_participant calls for the same name by
\* one caller, the first against a store with no record for it, with every
\* remote call succeeding and no other writer: the second call returns the
\* identifier the first returned and creates no second record, whatever the
\* People table's field layout.
C3_SequentialIdempotent ==
    \A i, j \in 1..Len(hist) :
        ( /\ i < j
          /\ hist[i].caller = hist[j].caller
          /\ hist[i].name = hist[j].name
          /\ Ok(hist[i]) /\ Ok(hist[j])
          /\ hist[i].created
          /\ OnlyWriters(i, j) )
        => (hist[j].ret = hist[i].ret /\ ~hist[j].created)

\* C6: a call whose lookup or create ended in a transport failure, a
\* non-success status or a malformed response returns absent and creates no
\* person record; this includes a non-success status on the initial lookup.
\* (A failed schema fetch is left out: section 4.3 step 4 of the
\* specification lets the create go on with the default field 'Name'.)
C6_FailureReturnsAbsent ==
    \A i \in 1..Len(hist) :
        hist[i].fail \in {"lookup", "create"} => (hist[i].ret = NoId /\ ~hist[i].created)

RecordsNamed(name) == {i \in 1..Len(people) : people[i].value = name}

\* Calls i and j are by different callers, for the same name, both got a
\* successful lookup with no match and then a successful create.
Raced(i, j) ==
    /\ hist[i].caller # hist[j].caller
    /\ hist[i].name = hist[j].name
    /\ Ok(hist[i]) /\ Ok(hist[j])
    /\ hist[i].via = "create" /\ hist[j].via = "create"

\* C9: when two callers reconcile the same name and both lookups miss, both
\* creates go through: the two calls return different identifiers and the
\* People table holds a record with that name under each of them.
C9_RaceCreatesTwoRecords ==
    \A i, j \in 1..Len(hist) :
        Raced(i, j) =>
            /\ hist[i].ret # hist[j].ret
            /\ {hist[i].ret, hist[j].ret} \subseteq RecordsNamed(hist[i].name)

\* The race has happened: with the name field being 'Name' a later lookup
\* would have found the record, so both lookups ran before either create.
C9_Witness ==
    /\ layout = LayoutNameFirst
    /\ people \in Seq([id : Nat, field : {"Name"}, value : {Bo}])
    /\ \E i, j \in 1..Len(hist) : Raced(i, j) /\ hist[i].ret # hist[j].ret

----------------------------------------------------------------------------
(* Claims about name canonicalization, checked under SpecNames *)

\* C14: for every name over letters, spaces and commas,
\* reformat_name(reformat_name(n)) equals reformat_name(n).
C14_ReformatIdempotent ==
    Len(names) = 3 => names[3] = names[2]

====
